---- MODULE Spec2Model ----
(***************************************************************************)
(* OSRSFlipper (src/osrs_flipper.py): the opportunity evaluator, the 7-day *)
(* statistics, the consistency filter and the top-20 selection with        *)
(* replacement rounds.                                                      *)
(*                                                                          *)
(* Numbers.  Python floats are modelled by exact rationals:                 *)
(*   - int(x * 0.01), int(x * 0.10), int(x * 1.05), int(n * 0.05) and       *)
(*     int(n * 0.95) truncate a non-negative product, i.e. they are the     *)
(*     integer quotients (x \div 100), (x \div 10), (105 x \div 100),       *)
(*     (5 n \div 100), (95 n \div 100);                                     *)
(*   - an average sum / (n * 0.9) is the pair num = 10 * sum, den = 9 * n;  *)
(*   - a standard deviation is kept as the sum of squares it is the root    *)
(*     of, and |c - avg| <= 2 * std is compared squared.                    *)
(***************************************************************************)
EXTENDS Integers, Sequences, FiniteSets, TLC

VARIABLES
    \* --- one call of a pure helper (specification SpecCalls)
    call,                      \* the helper called and its arguments
    ret,                       \* its return value, once it has returned
    \* --- analyze_flipping_opportunities, first pass (specification SpecEval)
    params,                    \* min_volume, min_margin, available_cash
    todo,                      \* items of latest_prices still to be visited
    last,                      \* the item visited last and what became of it
    counters,                  \* the drop counters of lines 291-297
    \* --- analyze_flipping_opportunities, selection (Spec and SpecSmall)
    pc,                        \* position in the function
    opportunities,             \* the candidates, sorted by raw_score (line 414)
    filtered_opportunities,    \* the accepted list: indices into opportunities
    filtered_count,            \* line 424
    inconsistent_price_items,  \* line 298
    rounds,                    \* the slices of opportunities taken so far
    batch,                     \* the slice being fetched and filtered
    timeseries,                \* the provider's answer for each id of the batch
    historical_data,           \* the result dict of get_7d_prices being built
    cursor                     \* position of the running loop inside the batch

callVars == <<call, ret>>
evalVars == <<params, todo, last, counters>>
selVars  == <<pc, opportunities, filtered_opportunities, filtered_count,
              inconsistent_price_items, rounds, batch, timeseries,
              historical_data, cursor>>
vars     == <<call, ret, params, todo, last, counters, pc, opportunities,
              filtered_opportunities, filtered_count, inconsistent_price_items,
              rounds, batch, timeseries, historical_data, cursor>>

----------------------------------------------------------------------------
(* Bounds of the model *)

MaxSellPrice == 330
MaxCost == 45
MaxPool == 27
MaxSmallPool == 3

----------------------------------------------------------------------------
(* Program constants *)

TopK == 20
ReplacementBatch == 5
TaxFreeLimit == 100
BondItemId == 13190

----------------------------------------------------------------------------
(* Sequence helpers *)

Min(a, b) == IF a <= b THEN a ELSE b

Range(s) == {s[i] : i \in DOMAIN s}

\* sum(s): the terms are integers, so the order of the additions is free.
RECURSIVE SumSeq(_)
SumSeq(s) ==
    IF Len(s) = 0 THEN 0
    ELSE IF Len(s) = 1 THEN s[1]
    ELSE LET half == Len(s) \div 2
         IN  SumSeq(SubSeq(s, 1, half)) + SumSeq(SubSeq(s, half + 1, Len(s)))

\* Python's s[a:b] with 0 <= a, indices counted from 0, b cut at len(s).
Slice(s, a, b) == SubSeq(s, a + 1, Min(b, Len(s)))

\* sorted(s): its k-th element is the value with fewer than k elements
\* below it and at least k elements not above it.
SortAsc(s) ==
    [k \in 1..Len(s) |->
        CHOOSE v \in Range(s) :
            /\ Cardinality({i \in DOMAIN s : s[i] < v}) < k
            /\ k <= Cardinality({i \in DOMAIN s : s[i] <= v})]

Repeat(x, n) == [i \in 1..n |-> x]

----------------------------------------------------------------------------
(* The pure helpers *)

calculate_ge_tax_strict(sell_price) ==
    IF sell_price < TaxFreeLimit THEN 0 ELSE sell_price \div 100

calculate_ge_tax(sell_price) ==
    IF sell_price <= TaxFreeLimit THEN 0 ELSE sell_price \div 100

calculate_bond_conversion_cost(price) == price \div 10

calculate_required_capital_ceil(buy_price, buy_limit, ge_tax, bond_conversion_cost) ==
    LET total_cost == buy_price * buy_limit + ge_tax + bond_conversion_cost
    IN  (total_cost * 105 + 99) \div 100

calculate_required_capital(buy_price, buy_limit, ge_tax, bond_conversion_cost) ==
    LET buy_cost   == buy_price * buy_limit
        total_cost == buy_cost + ge_tax + bond_conversion_cost
    IN  (total_cost * 105) \div 100

\* abs(current - avg) <= 2 * std, with avg = num/den and
\* std^2 = 10 * ss / (n9 * den^2), both sides squared and cleared of fractions.
WithinRange(current, avg, std) ==
    std.n9 * (avg.den * current - avg.num) * (avg.den * current - avg.num)
        <= 40 * std.ss

WithinPercentile(current, lo, hi) == lo <= current /\ current <= hi

NoStats == [tag |-> "none"]

is_price_consistent_range_only(current_high, current_low, historical) ==
    IF historical.tag = "none" THEN FALSE
    ELSE /\ WithinRange(current_high, historical.avg_high, historical.high_std)
         /\ WithinRange(current_low, historical.avg_low, historical.low_std)

is_price_consistent(current_high, current_low, historical) ==
    IF historical.tag = "none" THEN FALSE
    ELSE LET high_within_range ==
                 WithinRange(current_high, historical.avg_high, historical.high_std)
             low_within_range ==
                 WithinRange(current_low, historical.avg_low, historical.low_std)
             high_within_percentile ==
                 WithinPercentile(current_high, historical.high_5th, historical.high_95th)
             low_within_percentile ==
                 WithinPercentile(current_low, historical.low_5th, historical.low_95th)
         IN  /\ high_within_range
             /\ low_within_range
             /\ high_within_percentile
             /\ low_within_percentile

----------------------------------------------------------------------------
(* get_7d_prices: the statistics of one item's series (lines 171-234).     *)
(* A point of the series is [avgHighPrice, avgLowPrice]; 0 stands for a    *)
(* value that is absent, null or zero, which the list comprehensions of    *)
(* lines 179-180 drop alike.  The volume averages (lines 211-216) feed no  *)
(* decision and are left out.                                              *)

Idx05(n) == (n * 5) \div 100
Idx95(n) == (n * 95) \div 100

\* [p for p in ... if p]
NonZero(s) == SelectSeq(s, LAMBDA p : p # 0)

HighPrices(item_data) == NonZero([i \in DOMAIN item_data |-> item_data[i].avgHighPrice])
LowPrices(item_data)  == NonZero([i \in DOMAIN item_data |-> item_data[i].avgLowPrice])

\* prices[int(len * 0.05)] and prices[int(len * 0.95)], Python indices from 0.
Percentile5(prices)  == prices[Idx05(Len(prices)) + 1]
Percentile95(prices) == prices[Idx95(Len(prices)) + 1]

MiddleSlice(prices) == Slice(prices, Idx05(Len(prices)), Idx95(Len(prices)))

\* sum(middle) / (len * 0.9)
MiddleAvg(prices) ==
    [num |-> 10 * SumSeq(MiddleSlice(prices)), den |-> 9 * Len(prices)]

\* (sum((x - avg) ** 2 for x in middle) / (len * 0.9)) ** 0.5, kept as the
\* sum of the squares of den * x - num and the divisor 9 * len.
MiddleStd(prices) ==
    LET avg == MiddleAvg(prices)
        m   == MiddleSlice(prices)
    IN  [ss |-> SumSeq([i \in DOMAIN m |->
                          (avg.den * m[i] - avg.num) * (avg.den * m[i] - avg.num)]),
         n9 |-> 9 * Len(prices)]

\* The outcome of lines 171-234 for one response body:
\*   "skip"  - one of the three `continue`s, no entry is written;
\*   "raise" - ZeroDivisionError at line 196 (int(len * 0.05) = 0);
\*   "ok"    - the entry written at line 218.
ItemStats(item_data) ==
    IF item_data = <<>> THEN [tag |-> "skip"]
    ELSE LET high_prices == SortAsc(HighPrices(item_data))
             low_prices  == SortAsc(LowPrices(item_data))
         IN  IF high_prices = <<>> \/ low_prices = <<>> THEN [tag |-> "skip"]
             ELSE IF Idx05(Len(low_prices)) = 0 \/ Idx05(Len(high_prices)) = 0
                  THEN [tag |-> "raise"]
             ELSE [tag         |-> "ok",
                   avg_high    |-> MiddleAvg(high_prices),
                   avg_low     |-> MiddleAvg(low_prices),
                   high_std    |-> MiddleStd(high_prices),
                   low_std     |-> MiddleStd(low_prices),
                   high_5th    |-> Percentile5(high_prices),
                   high_95th   |-> Percentile95(high_prices),
                   low_5th     |-> Percentile5(low_prices),
                   low_95th    |-> Percentile95(low_prices),
                   data_points |-> Len(item_data)]

----------------------------------------------------------------------------
(* SpecCalls: one call of a pure helper on arguments from bounded sets *)

TaxCalls == {[op |-> "tax", args |-> <<s>>] : s \in 1..MaxSellPrice}

CapitalCalls ==
    {[op |-> "capital", args |-> <<p, l, t, b>>] :
        p \in 1..MaxCost, l \in {1, 2, 7}, t \in {0, 1}, b \in {0, 3}}

\* Statistics with whole-number averages and deviations: avg = a, std = d.
SideStats == {[avg |-> [num |-> 3, den |-> 1], std |-> [ss |-> d * d, n9 |-> 10],
               p5 |-> lo, p95 |-> hi] : d \in {0, 1}, lo \in {2, 3}, hi \in {3, 4}}

Histories ==
    {NoStats} \cup
    {[tag |-> "ok", avg_high |-> h.avg, high_std |-> h.std,
      high_5th |-> h.p5, high_95th |-> h.p95,
      avg_low |-> l.avg, low_std |-> l.std,
      low_5th |-> l.p5, low_95th |-> l.p95, data_points |-> 20] :
        h \in SideStats, l \in SideStats}

ConsistentCalls ==
    {[op |-> "consistent", args |-> <<ch, cl, hist>>] :
        ch \in 1..5, cl \in 1..5, hist \in Histories}

NoCall == [op |-> "none", args |-> <<>>]
NoRet  == [done |-> FALSE, val |-> 0]

CallGeTax ==
    /\ call.op = "tax" /\ ~ret.done
    /\ ret' = [done |-> TRUE, val |-> calculate_ge_tax(call.args[1])]
    /\ UNCHANGED <<call, evalVars, selVars>>

CallRequiredCapital ==
    /\ call.op = "capital" /\ ~ret.done
    /\ ret' = [done |-> TRUE,
               val  |-> calculate_required_capital(call.args[1], call.args[2],
                                                   call.args[3], call.args[4])]
    /\ UNCHANGED <<call, evalVars, selVars>>

CallIsPriceConsistent ==
    /\ call.op = "consistent" /\ ~ret.done
    /\ ret' = [done |-> TRUE,
               val  |-> is_price_consistent(call.args[1], call.args[2], call.args[3])]
    /\ UNCHANGED <<call, evalVars, selVars>>

\* The parts of the state a specification does not use.
NoParams   == [min_volume |-> 0, min_margin |-> 0, available_cash |-> [given |-> FALSE, value |-> 0]]
NoItem     == [outcome |-> "none"]
NoCounters == [skipped_items |-> 0, unrealistic_price_items |-> 0,
               low_volume_items |-> 0, low_margin_items |-> 0,
               missing_buy_limit_items |-> 0, insufficient_cash_items |-> 0,
               low_profit_items |-> 0]

EvalIdle ==
    /\ params = NoParams
    /\ todo = 0
    /\ last = NoItem
    /\ counters = NoCounters

SelIdle ==
    /\ pc = "idle"
    /\ opportunities = <<>>
    /\ filtered_opportunities = <<>>
    /\ filtered_count = 0
    /\ inconsistent_price_items = 0
    /\ rounds = <<>>
    /\ batch = <<>>
    /\ timeseries = <<>>
    /\ historical_data = <<>>
    /\ cursor = 0

CallsIdle == call = NoCall /\ ret = NoRet

InitCalls ==
    /\ call \in TaxCalls \cup CapitalCalls \cup ConsistentCalls
    /\ ret = NoRet
    /\ EvalIdle
    /\ SelIdle

NextCalls == CallGeTax \/ CallRequiredCapital \/ CallIsPriceConsistent

SpecCalls == InitCalls /\ [][NextCalls]_vars

----------------------------------------------------------------------------
(* analyze_flipping_opportunities, first pass (lines 290-411).             *)
(* An item is what the three API answers hold for one id of latest_prices: *)
(* the snapshot (high, low), the 24h entry if there is one, and the        *)
(* mapping entry.  NONE stands for Python's None or an absent key whose    *)
(* default is None; every test of the loop treats a None price or volume   *)
(* like a non-positive one.                                                *)

NONE == -1

\* the bond, and one item that is not the bond
ItemIds == {BondItemId, 4151}
DefaultResetTime == 14400
SecondsPerDay == 86400

MaxItems == 2

\* <<high, low>> of the snapshot: a missing high, a zero low, a spread over
\* 50%, a profit per trade under 100, and three that can pass every test.
Snapshots == {<<NONE, 200>>, <<300, 0>>, <<300, 90>>, <<101, 90>>,
              <<300, 200>>, <<1000, 700>>, <<1000, 890>>}

\* <<highPriceVolume, lowPriceVolume>> of the 24h entry
Volumes == {<<NONE, 1000>>, <<1000, 50>>, <<1000, 1000>>}

Items ==
    {[item_id |-> id, in_daily |-> FALSE, high |-> sn[1], low |-> sn[2],
      avgHighPrice |-> NONE, avgLowPrice |-> NONE,
      highPriceVolume |-> NONE, lowPriceVolume |-> NONE,
      buy_limit |-> bl, reset_time |-> DefaultResetTime] :
        id \in ItemIds, sn \in Snapshots, bl \in {NONE, 10}}
    \cup
    {[item_id |-> id, in_daily |-> TRUE, high |-> sn[1], low |-> sn[2],
      avgHighPrice |-> dh, avgLowPrice |-> 200,
      highPriceVolume |-> v[1], lowPriceVolume |-> v[2],
      buy_limit |-> bl, reset_time |-> DefaultResetTime] :
        id \in ItemIds, sn \in Snapshots, dh \in {NONE, 300},
        v \in Volumes, bl \in {NONE, 10}}
    \cup
    \* other buy limits and reset times, volumes at and above min_volume
    {[item_id |-> 4151, in_daily |-> TRUE, high |-> sn[1], low |-> sn[2],
      avgHighPrice |-> 300, avgLowPrice |-> 200,
      highPriceVolume |-> v, lowPriceVolume |-> v,
      buy_limit |-> bl, reset_time |-> rt] :
        sn \in {<<101, 90>>, <<1000, 700>>}, v \in {100, 1000},
        bl \in {1, 5000}, rt \in {3600, SecondsPerDay}}

\* min_volume and min_margin are the defaults main() passes (100 and 0.5);
\* available_cash is absent (None), or the number given.
Params ==
    {[min_volume |-> 100, min_margin |-> [num |-> 1, den |-> 2], available_cash |-> c] :
        c \in {[given |-> FALSE, value |-> 0], [given |-> TRUE, value |-> 0],
               [given |-> TRUE, value |-> 5000]}}

Invalid(price) == price = NONE \/ price <= 0

\* lines 302-330 with the 24h prices tested before the spread
PriceChecks_daily_first(item) ==
    IF ~item.in_daily THEN "skipped_items"
    ELSE IF Invalid(item.high) \/ Invalid(item.low) THEN "skipped_items"
    ELSE IF Invalid(item.avgHighPrice) \/ Invalid(item.avgLowPrice) THEN "skipped_items"
    ELSE IF 2 * (item.high - item.low) > item.low THEN "unrealistic_price_items"
    ELSE "pass"

\* lines 302-330: the item must be in daily_prices, its snapshot prices
\* valid, its spread (high - low) / low at most 0.5, its 24h prices valid.
PriceChecks(item) ==
    IF ~item.in_daily THEN "skipped_items"
    ELSE IF Invalid(item.high) \/ Invalid(item.low) THEN "skipped_items"
    ELSE IF 2 * (item.high - item.low) > item.low THEN "unrealistic_price_items"
    ELSE IF Invalid(item.avgHighPrice) \/ Invalid(item.avgLowPrice) THEN "skipped_items"
    ELSE "pass"

\* line 333
VolumeTooLow(item, min_volume) ==
    \/ item.highPriceVolume = NONE \/ item.lowPriceVolume = NONE
    \/ item.highPriceVolume < min_volume \/ item.lowPriceVolume < min_volume

BondCost_every_item(item_id, current_high) ==
    calculate_bond_conversion_cost(current_high)

\* lines 342-343
BondCost(item_id, current_high) ==
    IF item_id = BondItemId THEN calculate_bond_conversion_cost(current_high) ELSE 0

\* line 345
Margin(item) ==
    item.high - item.low - calculate_ge_tax(item.high) - BondCost(item.item_id, item.high)

\* lines 346-348: (margin / current_low) * 100 < min_margin
MarginTooLow(item, min_margin) ==
    Margin(item) * 100 * min_margin.den < min_margin.num * item.low

RequiredCapital(item) ==
    calculate_required_capital(item.low, item.buy_limit, calculate_ge_tax(item.high),
                               BondCost(item.item_id, item.high))

\* line 367: `if available_cash and required_capital > available_cash`;
\* None and 0 are both false in `available_cash and ...`.
CashTooLow(item, available_cash) ==
    /\ available_cash.given /\ available_cash.value # 0
    /\ RequiredCapital(item) > available_cash.value

\* x > n for the fraction x = num / den, den > 0
Exceeds(x, n) ==
    \/ x.num \div x.den > n
    \/ x.num \div x.den = n /\ x.num % x.den # 0

\* return 0 (line 68)
ZeroScore == [tag |-> "zero", factors |-> <<>>]

\* One factor of the product of line 115: num / den, raised to the power
\* 1.5 where the code does so.
Factor(n, d, pow15) == [num |-> n, den |-> d, pow15 |-> pow15]

\* lines 70-115, the profit per trade being at least 100: the score is the
\* product of these factors.  buy_limit and reset_time are positive (a
\* zero would raise ZeroDivisionError at line 71 or 112).
ScoreProduct(profit_per_trade, high_volume, low_volume, buy_limit, reset_time) ==
    LET min_volume == Min(high_volume, low_volume)
        \* min_volume < buy_limit * periods_per_day (line 86)
        volume_factor ==
            IF min_volume * reset_time < buy_limit * SecondsPerDay
            THEN <<Factor(min_volume * reset_time, buy_limit * SecondsPerDay, TRUE)>>
            ELSE <<>>
        \* low_volume / periods_per_day < buy_limit (line 93)
        buy_limit_factor ==
            IF low_volume * reset_time < buy_limit * SecondsPerDay
            THEN <<Factor(low_volume * reset_time, buy_limit * SecondsPerDay, TRUE)>>
            ELSE <<>>
        \* lines 100-106, in tenths
        profit_multiplier ==
            IF Exceeds(profit_per_trade, 1000000) THEN 20
            ELSE IF Exceeds(profit_per_trade, 500000) THEN 17
            ELSE IF Exceeds(profit_per_trade, 100000) THEN 14
            ELSE 10
        \* lines 112-113: 1.0 + min(volume_ratio, 2.0)
        volume_multiplier ==
            IF min_volume * reset_time <= 2 * buy_limit * SecondsPerDay
            THEN Factor(min_volume * reset_time + buy_limit * SecondsPerDay,
                        buy_limit * SecondsPerDay, FALSE)
            ELSE Factor(3, 1, FALSE)
    IN  [tag     |-> "product",
         factors |-> <<Factor(profit_per_trade.num, profit_per_trade.den, FALSE),
                       Factor(buy_limit, 1, FALSE),
                       Factor(SecondsPerDay, reset_time, FALSE)>>
                     \o volume_factor \o buy_limit_factor
                     \o <<Factor(profit_multiplier, 10, FALSE),
                          Factor(5000 + buy_limit, 5000, FALSE),
                          volume_multiplier>>]

calculate_opportunity_score_no_floor(margin_percentage, high_volume, low_volume, price, buy_limit, reset_time) ==
    ScoreProduct([num |-> price * margin_percentage.num,
                  den |-> margin_percentage.den * 100],
                 high_volume, low_volume, buy_limit, reset_time)

\* _calculate_opportunity_score (lines 61-115); margin_percentage is the
\* fraction num / den.
calculate_opportunity_score(margin_percentage, high_volume, low_volume, price, buy_limit, reset_time) ==
    LET profit_per_trade == [num |-> price * margin_percentage.num,
                             den |-> margin_percentage.den * 100]
    IN  IF profit_per_trade.num < 100 * profit_per_trade.den THEN ZeroScore
        ELSE ScoreProduct(profit_per_trade, high_volume, low_volume,
                          buy_limit, reset_time)

\* score == 0 (line 387): the 0 of line 68, or a product with a factor 0
IsZero(score) ==
    \/ score.tag = "zero"
    \/ \E k \in DOMAIN score.factors : score.factors[k].num = 0

\* score > 0: a product of positive factors
IsPositive(score) ==
    /\ score.tag = "product"
    /\ \A k \in DOMAIN score.factors :
          score.factors[k].num > 0 /\ score.factors[k].den > 0

\* line 346
MarginPercentage(item) == [num |-> Margin(item) * 100, den |-> item.low]

\* line 384
Score(item) ==
    calculate_opportunity_score(MarginPercentage(item), item.highPriceVolume,
                                item.lowPriceVolume, item.high, item.buy_limit,
                                item.reset_time)

\* line 387
ScoreIsZero(item) == IsZero(Score(item))

\* lines 372-377: int(low_volume / (86400 / reset_time)), cut at the buy limit
AchievableItems(item) ==
    Min(item.buy_limit, (item.lowPriceVolume * item.reset_time) \div SecondsPerDay)

\* The dict appended at lines 391-411 (name left out).
Opportunity(item) ==
    [item_id              |-> item.item_id,
     buy_limit            |-> item.buy_limit,
     reset_time           |-> item.reset_time,
     buy_price            |-> item.low,
     sell_price           |-> item.high,
     ge_tax               |-> calculate_ge_tax(item.high),
     bond_conversion_cost |-> BondCost(item.item_id, item.high),
     daily_avg_high       |-> item.avgHighPrice,
     daily_avg_low        |-> item.avgLowPrice,
     high_volume          |-> item.highPriceVolume,
     low_volume           |-> item.lowPriceVolume,
     margin               |-> Margin(item),
     margin_percentage    |-> MarginPercentage(item),
     profit_per_window    |-> Margin(item) * AchievableItems(item),
     achievable_items     |-> AchievableItems(item),
     required_capital     |-> RequiredCapital(item),
     expected_capital     |-> RequiredCapital(item) + Margin(item) * AchievableItems(item),
     raw_score            |-> Score(item)]

\* One pass of the loop body: the counter it increments, or "appended".
Outcome(item, p) ==
    IF PriceChecks(item) # "pass" THEN PriceChecks(item)
    ELSE IF VolumeTooLow(item, p.min_volume) THEN "low_volume_items"
    ELSE IF MarginTooLow(item, p.min_margin) THEN "low_margin_items"
    ELSE IF item.buy_limit = NONE THEN "missing_buy_limit_items"
    ELSE IF CashTooLow(item, p.available_cash) THEN "insufficient_cash_items"
    ELSE IF ScoreIsZero(item) THEN "low_profit_items"
    ELSE "appended"

Account_low_profit_uncounted(cs, o) ==
    IF o \in {"appended", "low_profit_items"} THEN cs ELSE [cs EXCEPT ![o] = @ + 1]

\* The `+= 1` before each `continue` of the loop (lines 303-388); the pass
\* that reaches line 391 increments nothing.
Account(cs, o) ==
    IF o = "appended" THEN cs ELSE [cs EXCEPT ![o] = @ + 1]

InitEval ==
    /\ params \in Params
    /\ todo \in 0..MaxItems
    /\ last = NoItem
    /\ counters = NoCounters
    /\ pc = "first_pass"
    /\ opportunities = <<>>
    /\ filtered_opportunities = <<>>
    /\ filtered_count = 0
    /\ inconsistent_price_items = 0
    /\ rounds = <<>>
    /\ batch = <<>>
    /\ timeseries = <<>>
    /\ historical_data = <<>>
    /\ cursor = 0
    /\ CallsIdle

\* The body of the loop of line 301 for the next item of latest_prices.
VisitItem ==
    /\ pc = "first_pass" /\ todo > 0
    /\ \E item \in Items :
         LET o == Outcome(item, params)
         IN  /\ last' = [outcome |-> o, item |-> item]
             /\ counters' = Account(counters, o)
             /\ opportunities' = IF o = "appended"
                                 THEN Append(opportunities, Opportunity(item))
                                 ELSE opportunities
    /\ todo' = todo - 1
    /\ UNCHANGED <<params, pc, filtered_opportunities, filtered_count,
                   inconsistent_price_items, rounds, batch, timeseries,
                   historical_data, cursor, callVars>>

\* The loop of line 301 ends.
EndFirstPass ==
    /\ pc = "first_pass" /\ todo = 0
    /\ pc' = "first_pass_done"
    /\ UNCHANGED <<evalVars, opportunities, filtered_opportunities, filtered_count,
                   inconsistent_price_items, rounds, batch, timeseries,
                   historical_data, cursor, callVars>>

NextEval == VisitItem \/ EndFirstPass

SpecEval == InitEval /\ [][NextEval]_vars

----------------------------------------------------------------------------
(* analyze_flipping_opportunities, selection (lines 413-555).              *)
(* The state after line 414: the candidates, sorted by raw_score, highest  *)
(* first.  A candidate keeps the fields the selection reads or writes;     *)
(* weekly_avg_high, weekly_avg_low and score are keys the dict does not    *)
(* hold until they are assigned (Absent).                                  *)

Absent == [num |-> 0, den |-> 0]

\* <<sell_price, buy_price>> of the candidates
Profiles == {<<300, 200>>, <<1000, 700>>}

ProfileAt(i) == IF i % 2 = 1 THEN <<300, 200>> ELSE <<1000, 700>>

\* The candidate at rank i: ids are distinct (keys of latest_prices), scores
\* positive and non-increasing, equal for ranks 2k and 2k + 1.
Candidate(i) ==
    LET sell == ProfileAt(i)[1]
        buy  == ProfileAt(i)[2]
    IN  [item_id         |-> 2 * i + 1,
         sell_price      |-> sell,
         buy_price       |-> buy,
         ge_tax          |-> calculate_ge_tax(sell),
         margin          |-> sell - buy - calculate_ge_tax(sell),
         raw_score       |-> 100 * (MaxPool + 2 - (i \div 2)),
         weekly_avg_high |-> Absent,
         weekly_avg_low  |-> Absent,
         score           |-> Absent]

Pool(n) == [i \in 1..n |-> Candidate(i)]

(* What the timeseries endpoint answers for one id *)

Point(h, l) == [avgHighPrice |-> h, avgLowPrice |-> l]

Kinds == {"steady", "shifted", "spike", "band", "short", "empty", "nohigh", "error"}

\* The `data` of the answer, for a candidate selling at s and bought at b:
\*   steady  - 20 points around the current prices;
\*   shifted - 20 points, all 5 above the current prices;
\*   spike   - 19 points just below the current prices and one far above
\*             (current price inside the band, outside two deviations);
\*   band    - 20 points above the current prices, spread widely
\*             (current price within two deviations, outside the band);
\*   short   - 7 points (a week of daily points);
\*   empty   - no point at all;
\*   nohigh  - 20 points without a high price.
TimeSeries(kind, s, b) ==
    CASE kind = "steady"  -> Repeat(Point(s - 2, b - 2), 10) \o Repeat(Point(s + 2, b + 2), 10)
      [] kind = "shifted" -> Repeat(Point(s + 5, b + 5), 20)
      [] kind = "spike"   -> Repeat(Point(s - 1, b - 1), 19) \o <<Point(s + 3, b + 3)>>
      [] kind = "band"    -> Repeat(Point(s + 1, b + 1), 10) \o Repeat(Point(s + 5, b + 5), 10)
      [] kind = "short"   -> Repeat(Point(s, b), 7)
      [] kind = "empty"   -> <<>>
      [] kind = "nohigh"  -> Repeat(Point(0, b), 20)

\* One pass of the loop of get_7d_prices (lines 158-238) for an answer of
\* this kind: "error" is a requests.RequestException (raise_for_status or
\* the transport), caught at line 236.
FetchItem(kind, s, b) ==
    IF kind = "error" THEN [tag |-> "skip"] ELSE ItemStats(TimeSeries(kind, s, b))

\* The outcome for every kind of answer and every profile of Profiles.
FetchTable ==
    {[kind |-> k, profile |-> p, outcome |-> FetchItem(k, p[1], p[2])] :
        k \in Kinds, p \in Profiles}

Fetched(kind, opp) ==
    (CHOOSE t \in FetchTable :
        t.kind = kind /\ t.profile = <<opp.sell_price, opp.buy_price>>).outcome

\* results[item_id] = {...} (line 218); historical_data maps ids to entries.
Put(results, item_id, entry) ==
    [id \in DOMAIN results \cup {item_id} |->
        IF id = item_id THEN entry ELSE results[id]]

\* historical_data.get(item_id)
Get(results, item_id) ==
    IF item_id \in DOMAIN results THEN results[item_id] ELSE NoStats

\* get_7d_prices(item_ids) over the slice `idxs` of opps, answers[j] being
\* the kind of answer for the j-th id: the loop of line 158 runs until the
\* first ZeroDivisionError, if any, and every pass before it that reaches
\* line 218 writes its entry.
get_7d_prices(opps, idxs, answers) ==
    LET fetched == [j \in DOMAIN idxs |-> Fetched(answers[j], opps[idxs[j]])]
        raising == {j \in DOMAIN idxs : fetched[j].tag = "raise"}
        written == {j \in DOMAIN idxs :
                       /\ fetched[j].tag = "ok"
                       /\ \A k \in raising : j < k}
    IN  [raised  |-> raising # {},
         results |-> [id \in {opps[idxs[j]].item_id : j \in written} |->
                        fetched[CHOOSE j \in written :
                                   /\ opps[idxs[j]].item_id = id
                                   /\ \A k \in written :
                                        opps[idxs[k]].item_id = id => k <= j]]]

\* The locals the filter loops update.
Locals ==
    [opps |-> opportunities, filtered |-> filtered_opportunities,
     fcount |-> filtered_count, inconsistent |-> inconsistent_price_items]

\* Line 428 (470, 514) for the candidate at index i.
Consistent(st, i, results) ==
    is_price_consistent(st.opps[i].sell_price, st.opps[i].buy_price,
                        Get(results, st.opps[i].item_id))

Enriched_repriced(opp, historical) ==
    [opp EXCEPT !.weekly_avg_high = historical.avg_high,
                !.weekly_avg_low = historical.avg_low,
                !.sell_price = historical.high_95th,
                !.buy_price = historical.low_5th]

\* opp['weekly_avg_high'] = ..., opp['weekly_avg_low'] = ... (lines 434-435)
Enriched(opp, historical) ==
    [opp EXCEPT !.weekly_avg_high = historical.avg_high,
                !.weekly_avg_low = historical.avg_low]

\* One pass of a filter loop (lines 426-459, 468-500, 512-544) for the
\* candidate at index i; `first` tells the loop over the top 20, which alone
\* counts its rejects in filtered_count (line 430).
FilterOne(st, i, results, first) ==
    IF ~Consistent(st, i, results)
    THEN [st EXCEPT !.inconsistent = @ + 1,
                    !.fcount = IF first THEN @ + 1 ELSE @]
    ELSE [st EXCEPT !.opps[i] = Enriched(@, Get(results, st.opps[i].item_id)),
                    !.filtered = Append(@, i)]

FilterAll_uncounted(st, idxs, results, first) ==
    LET ok       == {i \in Range(idxs) : Consistent(st, i, results)}
        rejected == Len(idxs) - Cardinality(ok)
    IN  [opps         |-> [i \in DOMAIN st.opps |->
                             IF i \in ok
                             THEN Enriched(st.opps[i], Get(results, st.opps[i].item_id))
                             ELSE st.opps[i]],
         filtered     |-> st.filtered \o SelectSeq(idxs, LAMBDA i : i \in ok),
         fcount       |-> IF first THEN st.fcount + rejected ELSE st.fcount,
         inconsistent |-> st.inconsistent]

FilterAll_prepend(st, idxs, results, first) ==
    LET ok       == {i \in Range(idxs) : Consistent(st, i, results)}
        rejected == Len(idxs) - Cardinality(ok)
    IN  [opps         |-> [i \in DOMAIN st.opps |->
                             IF i \in ok
                             THEN Enriched(st.opps[i], Get(results, st.opps[i].item_id))
                             ELSE st.opps[i]],
         filtered     |-> SelectSeq(idxs, LAMBDA i : i \in ok) \o st.filtered,
         fcount       |-> IF first THEN st.fcount + rejected ELSE st.fcount,
         inconsistent |-> st.inconsistent + rejected]

\* A whole filter loop without `break` (lines 426-459, 468-500): the passes
\* do not depend on one another, so the candidates of the slice that pass
\* line 428 are enriched and appended in the order of the slice and the
\* others are counted.
FilterAll(st, idxs, results, first) ==
    LET ok       == {i \in Range(idxs) : Consistent(st, i, results)}
        rejected == Len(idxs) - Cardinality(ok)
    IN  [opps         |-> [i \in DOMAIN st.opps |->
                             IF i \in ok
                             THEN Enriched(st.opps[i], Get(results, st.opps[i].item_id))
                             ELSE st.opps[i]],
         filtered     |-> st.filtered \o SelectSeq(idxs, LAMBDA i : i \in ok),
         fcount       |-> IF first THEN st.fcount + rejected ELSE st.fcount,
         inconsistent |-> st.inconsistent + rejected]

FilterUntilFull_no_break(st, idxs, results) == FilterAll(st, idxs, results, FALSE)

\* The loop of line 512, left at line 547 by the pass that appends the 20th
\* accepted candidate: the passes up to that one are those of a whole loop.
FilterUntilFull(st, idxs, results) ==
    LET accepted(p) == Cardinality({j \in 1..p : Consistent(st, idxs[j], results)})
        full == {p \in DOMAIN idxs : Len(st.filtered) + accepted(p) >= TopK}
        stop == IF full = {} THEN Len(idxs)
                ELSE CHOOSE p \in full : \A q \in full : p <= q
    IN  FilterAll(st, SubSeq(idxs, 1, stop), results, FALSE)

\* opportunities[a:b] as the indices (from 1) of the candidates it holds
Indices(a, b) == [k \in 1..(Min(b, Len(opportunities)) - a) |-> a + k]

NextBatchStart_restart(fcount) == TopK

NextBatchEnd_all(next_batch_start) == Len(opportunities)

\* line 505
NextBatchEnd(next_batch_start) ==
    Min(next_batch_start + ReplacementBatch, Len(opportunities))

\* line 504
NextBatchStart(fcount) == TopK + fcount

\* line 503
MoreNeeded(filtered, fcount) ==
    Len(filtered) < TopK /\ Len(opportunities) > TopK + fcount

\* The answers to one round: every id of the slice gets a steady series,
\* but for one run of ids that all get a shifted series, an error or a short
\* series, or for one id that gets an answer of another kind.
Answers(n) ==
    {[j \in 1..n |-> "steady"]} \cup
    {[j \in 1..n |-> IF a <= j /\ j <= b THEN k ELSE "steady"] :
        a \in 1..n, b \in 1..n, k \in {"shifted", "error", "short"}} \cup
    {[j \in 1..n |-> IF j = a THEN k ELSE "steady"] :
        a \in 1..n, k \in {"spike", "band", "empty", "nohigh"}}

InitSel(maxPool) ==
    /\ pc = "top"
    /\ opportunities \in {Pool(n) : n \in 0..maxPool}
    /\ filtered_opportunities = <<>>
    /\ filtered_count = 0
    /\ inconsistent_price_items = 0
    /\ rounds = <<>>
    /\ batch = <<>>
    /\ timeseries = <<>>
    /\ historical_data = <<>>
    /\ cursor = 0
    /\ EvalIdle
    /\ CallsIdle

Init == InitSel(MaxPool)

\* After a round's filter loop: store the locals.
Store(st) ==
    /\ opportunities' = st.opps
    /\ filtered_opportunities' = st.filtered
    /\ filtered_count' = st.fcount
    /\ inconsistent_price_items' = st.inconsistent

\* ZeroDivisionError leaves get_7d_prices and, nothing catching it (lines
\* 420, 466, 510), analyze_flipping_opportunities.
Raise(idxs) ==
    /\ pc' = "raised"
    /\ rounds' = Append(rounds, idxs)
    /\ batch' = idxs
    /\ UNCHANGED <<opportunities, filtered_opportunities, filtered_count,
                   inconsistent_price_items>>

\* lines 418-459: the top 20 are fetched and filtered.
InitialWindow ==
    /\ pc = "top"
    /\ LET idxs == Indices(0, TopK)
       IN  \E answers \in Answers(Len(idxs)) :
             LET got == get_7d_prices(opportunities, idxs, answers)
             IN  IF got.raised THEN Raise(idxs)
                 ELSE LET st == FilterAll(Locals, idxs, got.results, TRUE)
                      IN  /\ Store(st)
                          /\ rounds' = Append(rounds, idxs)
                          /\ batch' = idxs
                          /\ pc' = IF st.fcount > 0 THEN "replace" ELSE "normalize"
    /\ UNCHANGED <<timeseries, historical_data, cursor, evalVars, callVars>>

\* lines 462-500: as many replacements as the top 20 had rejects.
FirstReplacement ==
    /\ pc = "replace"
    /\ LET idxs == Indices(TopK, TopK + filtered_count)
       IN  \E answers \in Answers(Len(idxs)) :
             LET got == get_7d_prices(opportunities, idxs, answers)
             IN  IF got.raised THEN Raise(idxs)
                 ELSE LET st == FilterAll(Locals, idxs, got.results, FALSE)
                      IN  /\ Store(st)
                          /\ rounds' = Append(rounds, idxs)
                          /\ batch' = idxs
                          /\ pc' = IF MoreNeeded(st.filtered, st.fcount)
                                   THEN "more" ELSE "normalize"
    /\ UNCHANGED <<timeseries, historical_data, cursor, evalVars, callVars>>

\* lines 503-549: one pass of the while loop, 5 more candidates.
NextBatch ==
    /\ pc = "more"
    /\ LET next_batch_start == NextBatchStart(filtered_count)
           next_batch_end   == NextBatchEnd(next_batch_start)
           idxs             == Indices(next_batch_start, next_batch_end)
       IN  \E answers \in Answers(Len(idxs)) :
             LET got == get_7d_prices(opportunities, idxs, answers)
             IN  IF got.raised THEN Raise(idxs)
                 ELSE LET st == FilterUntilFull(Locals, idxs, got.results)
                          fc == st.fcount + Len(idxs)
                      IN  /\ Store([st EXCEPT !.fcount = fc])
                          /\ rounds' = Append(rounds, idxs)
                          /\ batch' = idxs
                          /\ pc' = IF MoreNeeded(st.filtered, fc)
                                   THEN "more" ELSE "normalize"
    /\ UNCHANGED <<timeseries, historical_data, cursor, evalVars, callVars>>

MaxRawScore_pool(opps, filtered) ==
    CHOOSE m \in {opps[i].raw_score : i \in DOMAIN opps} :
        \A i \in DOMAIN opps : opps[i].raw_score <= m

\* max(opp['raw_score'] for opp in filtered_opportunities)
MaxRawScore(opps, filtered) ==
    CHOOSE m \in {opps[filtered[k]].raw_score : k \in DOMAIN filtered} :
        \A k \in DOMAIN filtered : opps[filtered[k]].raw_score <= m

\* lines 552-555 and the return of line 569: score = raw_score / max * 100
Normalize ==
    /\ pc = "normalize"
    /\ opportunities' =
         IF filtered_opportunities = <<>> THEN opportunities
         ELSE LET max_score == MaxRawScore(opportunities, filtered_opportunities)
              IN  [i \in DOMAIN opportunities |->
                     IF i \in Range(filtered_opportunities)
                     THEN [opportunities[i] EXCEPT
                             !.score = [num |-> 100 * opportunities[i].raw_score,
                                        den |-> max_score]]
                     ELSE opportunities[i]]
    /\ pc' = "done"
    /\ UNCHANGED <<filtered_opportunities, filtered_count, inconsistent_price_items,
                   rounds, batch, timeseries, historical_data, cursor,
                   evalVars, callVars>>

Next == InitialWindow \/ FirstReplacement \/ NextBatch \/ Normalize

Spec == Init /\ [][Next]_vars

----------------------------------------------------------------------------
(* SpecSmall: the round of the top 20 one candidate at a time, on pools of  *)
(* at most MaxSmallPool candidates and every combination of answers.        *)

InitSmall == InitSel(MaxSmallPool)

\* lines 418-419 and 156: the slice, its ids, the empty result dict.
StartWindow ==
    /\ pc = "top"
    /\ batch' = Indices(0, TopK)
    /\ rounds' = Append(rounds, batch')
    /\ timeseries' \in [DOMAIN batch' -> Kinds]
    /\ historical_data' = <<>>
    /\ cursor' = 1
    /\ pc' = "fetch"
    /\ UNCHANGED <<opportunities, filtered_opportunities, filtered_count,
                   inconsistent_price_items, evalVars, callVars>>

\* lines 158-238: one pass of the loop of get_7d_prices.  A
\* ZeroDivisionError is no requests.RequestException: it leaves the loop,
\* get_7d_prices and (line 420) analyze_flipping_opportunities.
FetchNext ==
    /\ pc = "fetch"
    /\ cursor <= Len(batch)
    /\ LET opp == opportunities[batch[cursor]]
           r   == Fetched(timeseries[cursor], opp)
       IN  IF r.tag = "raise"
           THEN /\ pc' = "raised"
                /\ UNCHANGED <<historical_data, cursor>>
           ELSE /\ historical_data' =
                     IF r.tag = "ok" THEN Put(historical_data, opp.item_id, r)
                     ELSE historical_data
                /\ cursor' = cursor + 1
                /\ pc' = "fetch"
    /\ UNCHANGED <<opportunities, filtered_opportunities, filtered_count,
                   inconsistent_price_items, rounds, batch, timeseries,
                   evalVars, callVars>>

\* lines 240 and 420-424: get_7d_prices returns, the filter loop starts.
FetchDone ==
    /\ pc = "fetch"
    /\ cursor > Len(batch)
    /\ pc' = "filter"
    /\ cursor' = 1
    /\ UNCHANGED <<opportunities, filtered_opportunities, filtered_count,
                   inconsistent_price_items, rounds, batch, timeseries,
                   historical_data, evalVars, callVars>>

\* lines 426-459: one pass of the filter loop over the top 20.
FilterNext ==
    /\ pc = "filter"
    /\ cursor <= Len(batch)
    /\ Store(FilterOne(Locals, batch[cursor], historical_data, TRUE))
    /\ cursor' = cursor + 1
    /\ UNCHANGED <<pc, rounds, batch, timeseries, historical_data,
                   evalVars, callVars>>

\* lines 462-549 on a pool of at most 20 candidates: opportunities[20:...]
\* is empty, get_7d_prices([]) returns {}, the loop of line 468 has no pass
\* and the condition of line 503 is false.
FilterDone ==
    /\ pc = "filter"
    /\ cursor > Len(batch)
    /\ Len(opportunities) <= TopK
    /\ rounds' = IF filtered_count > 0
                 THEN Append(rounds, Indices(TopK, TopK + filtered_count))
                 ELSE rounds
    /\ pc' = "normalize"
    /\ UNCHANGED <<opportunities, filtered_opportunities, filtered_count,
                   inconsistent_price_items, batch, timeseries, historical_data,
                   cursor, evalVars, callVars>>

NextSmall ==
    StartWindow \/ FetchNext \/ FetchDone \/ FilterNext \/ FilterDone \/ Normalize

SpecSmall == InitSmall /\ [][NextSmall]_vars

----------------------------------------------------------------------------
(* Claims about the pure helpers (checked under SpecCalls) *)

Returned(op) == call.op = op /\ ret.done

\* C5: _is_price_consistent returns False whenever the historical stats are
\* absent, and otherwise returns True exactly when all four gates hold: the
\* current high and the current low are each within two standard deviations
\* of their historical average and each inside their [5th, 95th] percentile
\* band.
C5_FourGates ==
    Returned("consistent") =>
        LET ch == call.args[1]
            cl == call.args[2]
            h  == call.args[3]
        IN  IF h.tag = "none" THEN ret.val = FALSE
            ELSE ret.val =
                   (/\ h.high_std.n9 * (h.avg_high.den * ch - h.avg_high.num)
                                     * (h.avg_high.den * ch - h.avg_high.num)
                         <= 40 * h.high_std.ss
                    /\ h.low_std.n9 * (h.avg_low.den * cl - h.avg_low.num)
                                    * (h.avg_low.den * cl - h.avg_low.num)
                         <= 40 * h.low_std.ss
                    /\ h.low_5th <= cl /\ cl <= h.low_95th
                    /\ h.high_5th <= ch /\ ch <= h.high_95th)

\* A call rejected by the percentile band of the high price alone: the high
\* is within two standard deviations, and the low passes both of its gates.
C5_Witness ==
    /\ Returned("consistent")
    /\ call.args[3].tag = "ok"
    /\ ret.val = FALSE
    /\ WithinRange(call.args[1], call.args[3].avg_high, call.args[3].high_std)
    /\ WithinRange(call.args[2], call.args[3].avg_low, call.args[3].low_std)
    /\ WithinPercentile(call.args[2], call.args[3].low_5th, call.args[3].low_95th)
    /\ ~WithinPercentile(call.args[1], call.args[3].high_5th, call.args[3].high_95th)

\* C7: for every positive sell price the tax is 0 up to and including 100
\* and floor(sell_price / 100) above; tax(100) = 0 and tax(101) = 1.
C7_Tax ==
    Returned("tax") =>
        LET s == call.args[1]
        IN  /\ s <= 100 => ret.val = 0
            /\ s > 100 => /\ 100 * ret.val <= s
                          /\ s < 100 * (ret.val + 1)
            /\ s = 101 => ret.val = 1

C7_Witness == Returned("tax") /\ call.args[1] = 100 /\ ret.val = 0

TotalCost == call.args[1] * call.args[2] + call.args[3] + call.args[4]

\* C8 as stated: required capital is ceil(1.05 * total cost), the least
\* integer not below 1.05 * (buy_price * buy_limit + tax + bond cost).
C8_Ceil ==
    Returned("capital") =>
        /\ 100 * ret.val >= 105 * TotalCost
        /\ 100 * (ret.val - 1) < 105 * TotalCost

\* C8 amended: required capital is floor(1.05 * total cost), the 5% buffered
\* cost rounded down to a whole number.
C8_Floor ==
    Returned("capital") =>
        /\ 100 * ret.val <= 105 * TotalCost
        /\ 100 * (ret.val + 1) > 105 * TotalCost

C8_Witness ==
    /\ Returned("capital")
    /\ (105 * TotalCost) % 100 # 0
    /\ call.args[4] > 0

----------------------------------------------------------------------------
(* Claims about the first pass (checked under SpecEval) *)

Visited == last.outcome # "none"

\* C6: every appended opportunity has margin = sell_price - buy_price - tax
\* - bond conversion cost, the bond cost being floor(sell_price / 10) for
\* item 13190 and 0 for any other item; and the margin tested against
\* min_margin already has the bond cost taken off, so every appended
\* opportunity's net margin percentage is at least min_margin and a bond
\* whose net margin percentage is below it is dropped as low margin.
C6_Margin ==
    /\ \A i \in DOMAIN opportunities :
         LET o == opportunities[i]
         IN  /\ o.margin = o.sell_price - o.buy_price - o.ge_tax - o.bond_conversion_cost
             /\ o.bond_conversion_cost =
                  (IF o.item_id = 13190 THEN o.sell_price \div 10 ELSE 0)
             /\ o.margin * 100 * params.min_margin.den >= params.min_margin.num * o.buy_price
    /\ (/\ Visited
        /\ PriceChecks(last.item) = "pass"
        /\ ~VolumeTooLow(last.item, params.min_volume)
        /\ last.item.item_id = 13190
        /\ (last.item.high - last.item.low - calculate_ge_tax(last.item.high)
              - last.item.high \div 10) * 100 * params.min_margin.den
             < params.min_margin.num * last.item.low)
       => last.outcome = "low_margin_items"

\* A bond was appended with its conversion cost taken off the margin.
C6_Witness ==
    \E i \in DOMAIN opportunities :
        /\ opportunities[i].item_id = 13190
        /\ opportunities[i].bond_conversion_cost = 100
        /\ opportunities[i].margin = 190

\* C9 as stated: whenever available_cash is given, 0 included, every
\* appended opportunity has required_capital <= available_cash; when it is
\* not given no item is counted as dropped for insufficient capital.
C9_CashRespected ==
    /\ params.available_cash.given =>
         \A i \in DOMAIN opportunities :
             opportunities[i].required_capital <= params.available_cash.value
    /\ ~params.available_cash.given => counters.insufficient_cash_items = 0

MissingPrice(item) ==
    \/ ~item.in_daily
    \/ Invalid(item.high) \/ Invalid(item.low)
    \/ Invalid(item.avgHighPrice) \/ Invalid(item.avgLowPrice)

\* C10 as stated: an item with a missing or non-positive price in the
\* snapshot or in the daily stats is dropped as MissingData (filter 1),
\* whatever its spread.
C10_MissingDataFirst ==
    (Visited /\ MissingPrice(last.item)) => last.outcome = "skipped_items"

\* C10 amended: a dropped item carries the reason of the first check it
\* fails in this order: absent from the daily stats or snapshot price
\* missing or non-positive (MissingData), spread over 50%
\* (UnrealisticSpread), daily price missing or non-positive (MissingData),
\* LowVolume, LowMargin, MissingMetadata; an item passing all six is dropped
\* only as InsufficientCapital (its required capital exceeds the cash given)
\* or as ZeroScore (profit per trade under 100), or is appended.
C10_CodeOrder ==
    Visited =>
        LET it == last.item
            o  == last.outcome
        IN  IF ~it.in_daily \/ Invalid(it.high) \/ Invalid(it.low)
              THEN o = "skipped_items"
            ELSE IF 2 * (it.high - it.low) > it.low
              THEN o = "unrealistic_price_items"
            ELSE IF Invalid(it.avgHighPrice) \/ Invalid(it.avgLowPrice)
              THEN o = "skipped_items"
            ELSE IF \/ it.highPriceVolume = NONE \/ it.lowPriceVolume = NONE
                    \/ it.highPriceVolume < params.min_volume
                    \/ it.lowPriceVolume < params.min_volume
              THEN o = "low_volume_items"
            ELSE IF Margin(it) * 100 * params.min_margin.den
                      < params.min_margin.num * it.low
              THEN o = "low_margin_items"
            ELSE IF it.buy_limit = NONE
              THEN o = "missing_buy_limit_items"
            ELSE /\ o \in {"insufficient_cash_items", "low_profit_items", "appended"}
                 /\ o = "insufficient_cash_items" =>
                      /\ params.available_cash.given
                      /\ RequiredCapital(it) > params.available_cash.value
                 /\ o = "low_profit_items" => it.high * Margin(it) < 100 * it.low

\* An item with a valid snapshot, a spread over 50% and no valid daily
\* price was dropped as an unrealistic spread.
C10_Witness ==
    /\ Visited
    /\ last.item.in_daily
    /\ ~Invalid(last.item.high) /\ ~Invalid(last.item.low)
    /\ 2 * (last.item.high - last.item.low) > last.item.low
    /\ Invalid(last.item.avgHighPrice)
    /\ last.outcome = "unrealistic_price_items"

----------------------------------------------------------------------------
(* Claims about the selection (checked under Spec) *)

\* C1 as stated: when analyze_flipping_opportunities returns, the accepted
\* list has exactly min(20, N) items, N being the number of candidates.
C1_SizeMinKN ==
    pc = "done" => Len(filtered_opportunities) = Min(TopK, Len(opportunities))

\* C1 amended: when analyze_flipping_opportunities returns, the accepted
\* list has exactly min(20, N - R) items, N being the number of candidates
\* and R the number of candidates the consistency filter rejected during
\* the run: the list is full, or every candidate of the pool was filtered
\* and the list holds all those that passed.
C1_SizeMinPassed ==
    pc = "done" =>
        Len(filtered_opportunities) =
            Min(TopK, Len(opportunities) - inconsistent_price_items)

\* A run over more than 20 candidates returned fewer than 20 of them.
C1_Witness ==
    /\ pc = "done"
    /\ Len(opportunities) > TopK
    /\ inconsistent_price_items > 0
    /\ Len(filtered_opportunities) < TopK

Consumed == UNION {Range(rounds[r]) : r \in DOMAIN rounds}

\* C2: the initial window, the first replacement round and every later
\* round take the candidates in strictly increasing rank order: each round
\* is a run of consecutive ranks, a later round lies wholly after an earlier
\* one, together they cover the ranks from 1 on without a gap, and the
\* accepted list is strictly increasing in rank and holds no item twice.
C2_RankOrder ==
    /\ \A r \in DOMAIN rounds : \A k \in 1..(Len(rounds[r]) - 1) :
           rounds[r][k + 1] = rounds[r][k] + 1
    /\ \A r \in DOMAIN rounds : \A q \in DOMAIN rounds :
           r < q => \A a \in Range(rounds[r]) : \A b \in Range(rounds[q]) : a < b
    /\ Consumed = 1..Cardinality(Consumed)
    /\ Range(filtered_opportunities) \subseteq Consumed
    /\ \A k \in DOMAIN filtered_opportunities : \A l \in DOMAIN filtered_opportunities :
           k < l => /\ filtered_opportunities[k] < filtered_opportunities[l]
                    /\ opportunities[filtered_opportunities[k]].item_id
                         # opportunities[filtered_opportunities[l]].item_id

\* A run of four non-empty rounds (the window, the first replacement and
\* two later rounds) returned a full list.
C2_Witness ==
    /\ pc = "done"
    /\ Len(rounds) = 4
    /\ \A r \in DOMAIN rounds : rounds[r] # <<>>
    /\ Len(filtered_opportunities) = TopK

----------------------------------------------------------------------------
(* Claims about one round of historical statistics (checked under SpecSmall) *)

\* The j-th id of the round was requested: its pass of the loop of
\* get_7d_prices has run.
Requested(j) ==
    \/ pc \in {"fetch", "raised"} /\ cursor > j
    \/ pc \in {"filter", "normalize", "done"}

\* The j-th id of the round has a series with usable prices, fewer than 20.
InsufficientHistory(j) ==
    /\ timeseries[j] # "error"
    /\ LET opp  == opportunities[batch[j]]
           data == TimeSeries(timeseries[j], opp.sell_price, opp.buy_price)
       IN  /\ HighPrices(data) # <<>>
           /\ LowPrices(data) # <<>>
           /\ Len(HighPrices(data)) < 20 \/ Len(LowPrices(data)) < 20

\* C3 as stated: a selected candidate whose series has fewer than 20 usable
\* points does not make the statistics step divide by zero; the candidate is
\* rejected as inconsistent and the run goes on to return.
C3_InsufficientHistoryRejected ==
    \A j \in DOMAIN timeseries :
        InsufficientHistory(j) =>
            /\ ~(pc = "raised" /\ cursor = j)
            /\ pc \in {"normalize", "done"} =>
                  batch[j] \notin Range(filtered_opportunities)

\* C4 as stated: once the fetch for one id of a round has failed, that id
\* has no entry, the run is not aborted, the round completes with an entry
\* for every id whose answer yields one, and the failed item is rejected by
\* the consistency filter.
C4_FailedFetchIsolated ==
    \A j \in DOMAIN timeseries :
        (timeseries[j] = "error" /\ Requested(j)) =>
            /\ opportunities[batch[j]].item_id \notin DOMAIN historical_data
            /\ pc # "raised"
            /\ pc \in {"filter", "normalize", "done"} =>
                  \A k \in DOMAIN timeseries :
                      Fetched(timeseries[k], opportunities[batch[k]]).tag = "ok"
                          => opportunities[batch[k]].item_id \in DOMAIN historical_data
            /\ pc \in {"normalize", "done"} =>
                  /\ batch[j] \notin Range(filtered_opportunities)
                  /\ inconsistent_price_items > 0

----------------------------------------------------------------------------
(* Further claims about the first pass (checked under SpecEval) *)

\* The item visited last holds every argument of the score function.
Scorable(item) ==
    /\ ~Invalid(item.high) /\ ~Invalid(item.low)
    /\ item.highPriceVolume # NONE /\ item.lowPriceVolume # NONE
    /\ item.buy_limit # NONE

\* C11: the score function returns 0 whenever the profit per trade
\* sell_price * margin_percentage / 100 is below 100, whatever the volumes,
\* the buy limit and the reset time; an item that reaches the score with a
\* score of 0 is dropped as low profit; and every appended candidate has a
\* raw score above 0.
C11_ZeroScore ==
    /\ (Visited /\ Scorable(last.item)
          /\ last.item.high * Margin(last.item) < 100 * last.item.low)
         => Score(last.item) = ZeroScore
    /\ (Visited /\ last.outcome \in {"low_profit_items", "appended"})
         => (last.outcome = "low_profit_items" <=> IsZero(Score(last.item)))
    /\ \A i \in DOMAIN opportunities : IsPositive(opportunities[i].raw_score)

\* An item with a buy limit of 5000, a reset time of a day and a profit per
\* trade under 100 passed the six filters before the score and was dropped
\* as low profit.
C11_Witness ==
    /\ Visited
    /\ last.outcome = "low_profit_items"
    /\ last.item.buy_limit = 5000
    /\ last.item.reset_time = SecondsPerDay
    /\ last.item.high * Margin(last.item) < 100 * last.item.low

----------------------------------------------------------------------------
(* Further claims about the selection (checked under Spec) *)

Returned_list == Range(filtered_opportunities)

\* The highest raw score of the returned list.
BestReturned ==
    CHOOSE m \in {opportunities[i].raw_score : i \in Returned_list} :
        \A i \in Returned_list : opportunities[i].raw_score <= m

\* C12: when the run has returned, every returned opportunity has
\* score = raw_score / M * 100, M being the highest raw score of the
\* returned list; every score is above 0 and at most 100, an opportunity
\* with raw score M has exactly 100, and no candidate outside the returned
\* list holds a score.
C12_Normalized ==
    pc = "done" =>
        \E best \in {IF filtered_opportunities = <<>> THEN 0 ELSE BestReturned} :
            \A i \in DOMAIN opportunities :
                IF i \in Returned_list
                THEN LET sc == opportunities[i].score
                     IN  /\ sc.den > 0
                         /\ sc.num * best = 100 * opportunities[i].raw_score * sc.den
                         /\ 0 < sc.num /\ sc.num <= 100 * sc.den
                         /\ opportunities[i].raw_score = best => sc.num = 100 * sc.den
                ELSE opportunities[i].score = Absent

\* The run returned a list without the best candidate of the pool: the
\* best returned one has a lower raw score and a score of 100.
C12_Witness ==
    /\ pc = "done"
    /\ filtered_opportunities # <<>>
    /\ 1 \notin Returned_list
    /\ BestReturned < opportunities[1].raw_score
    /\ opportunities[filtered_opportunities[1]].score.num
         = 100 * opportunities[filtered_opportunities[1]].score.den

\* C13 as stated: the selector runs replacement rounds until the accepted
\* list has 20 items or the ranked pool is exhausted: every pass of the
\* loop of further rounds consumes at least one candidate, and once no
\* further round follows the list has exactly 20 items or every candidate
\* has been consumed.
C13_UntilFullOrExhausted ==
    /\ \A r \in 3..Len(rounds) : rounds[r] # <<>>
    /\ pc \in {"normalize", "done", "raised"} =>
          \/ Len(filtered_opportunities) = TopK
          \/ Consumed = DOMAIN opportunities

\* The number of candidates consumed before round r.
Before(r) == Cardinality(UNION {Range(rounds[q]) : q \in 1..(r - 1)})

\* The candidates of the initial window that were rejected.
WindowRejects == Cardinality(Range(rounds[1]) \ Returned_list)

\* C14: the first replacement round pulls as many next-ranked candidates as
\* the initial window had rejects, or all that remain if fewer; every later
\* round pulls 5 next-ranked candidates, or all that remain if fewer; and
\* a further round is started only when every candidate of the rounds
\* before has been filtered (accepted or counted as rejected).
C14_RoundSizes ==
    /\ Len(rounds) >= 2 =>
          Len(rounds[2]) = Min(WindowRejects, Len(opportunities) - Before(2))
    /\ \A r \in 3..Len(rounds) :
          Len(rounds[r]) = Min(ReplacementBatch, Len(opportunities) - Before(r))
    /\ \A r \in 2..Len(rounds) :
          rounds[r] # <<>> => rounds[r][1] = Before(r) + 1
    /\ pc \in {"replace", "more"} =>
          Cardinality(Consumed)
            = Len(filtered_opportunities) + inconsistent_price_items

\* A run of three rounds over 27 candidates: three rejects in the window,
\* a first replacement round of 3 and a later round of the 4 that remain.
C14_Witness ==
    /\ pc = "done"
    /\ Len(rounds) = 3
    /\ Len(rounds[2]) = 3
    /\ Len(rounds[3]) = 4

\* C15 as stated: when the run has returned, every candidate pulled into
\* a round is accepted (in the returned list) or rejected (counted as
\* inconsistent), one or the other.
C15_AcceptedOrRejected ==
    pc = "done" =>
        Cardinality(Consumed)
          = Len(filtered_opportunities) + inconsistent_price_items

\* The pulled candidates that no filter loop has visited: those of a round
\* whose statistics request raised, and those of a later round (of the loop
\* of line 503) ranked after the candidate that completed the list.
Unfiltered ==
    IF pc = "raised" THEN Range(rounds[Len(rounds)])
    ELSE IF Len(rounds) >= 3 /\ Len(filtered_opportunities) = TopK
         THEN {i \in Range(rounds[Len(rounds)]) : i > filtered_opportunities[TopK]}
         ELSE {}

\* C15 amended: every candidate pulled into a round is accepted or counted
\* as rejected, one or the other, except the candidates of a later round
\* ranked after the one that completed the list of 20 and the candidates
\* of a round whose statistics request raised: their statistics were
\* requested but they are neither accepted nor rejected.
C15_FilteredOrLeft ==
    /\ Returned_list \cap Unfiltered = {}
    /\ Cardinality(Consumed)
         = Len(filtered_opportunities) + inconsistent_price_items
           + Cardinality(Unfiltered)

\* The run returned 20 opportunities and left pulled candidates unfiltered.
C15_Witness ==
    /\ pc = "done"
    /\ Len(filtered_opportunities) = TopK
    /\ Unfiltered # {}

\* C16: a candidate holds weekly_avg_high and weekly_avg_low if and only
\* if it passed the consistency filter and is in the accepted list; every
\* other candidate, rejected or never filtered, has all the fields it was
\* created with; and no candidate's prices, tax, margin or raw score ever
\* differ from those it was created with.
C16_Enrichment ==
    \A i \in DOMAIN opportunities :
        LET o == opportunities[i]
            c == Candidate(i)
        IN  /\ (o.weekly_avg_high # Absent) <=> (i \in Returned_list)
            /\ (o.weekly_avg_low # Absent) <=> (i \in Returned_list)
            /\ i \in Returned_list =>
                  o.weekly_avg_high.den > 0 /\ o.weekly_avg_low.den > 0
            /\ i \notin Returned_list => o = c
            /\ o.item_id = c.item_id
            /\ o.sell_price = c.sell_price /\ o.buy_price = c.buy_price
            /\ o.ge_tax = c.ge_tax /\ o.margin = c.margin
            /\ o.raw_score = c.raw_score

\* The run returned with accepted candidates, a rejected candidate of the
\* window and a candidate that was never pulled.
C16_Witness ==
    /\ pc = "done"
    /\ filtered_opportunities # <<>>
    /\ Range(rounds[1]) \ Returned_list # {}
    /\ Consumed # DOMAIN opportunities
    /\ opportunities[filtered_opportunities[1]].weekly_avg_high # Absent

\* C18: the accepted list is ordered by non-increasing raw score and never
\* holds more than 20 items.
C18_ScoreOrder ==
    /\ Len(filtered_opportunities) <= TopK
    /\ \A k \in DOMAIN filtered_opportunities :
          \A l \in DOMAIN filtered_opportunities :
             k < l => opportunities[filtered_opportunities[k]].raw_score
                        >= opportunities[filtered_opportunities[l]].raw_score

\* The run returned 20 opportunities, the last of them a replacement with
\* a lower raw score than the first.
C18_Witness ==
    /\ pc = "done"
    /\ Len(filtered_opportunities) = TopK
    /\ filtered_opportunities[TopK] > TopK
    /\ opportunities[filtered_opportunities[1]].raw_score
         > opportunities[filtered_opportunities[TopK]].raw_score

\* The sum of the seven drop counters of the first pass.
Dropped(cs) ==
    cs.skipped_items + cs.unrealistic_price_items + cs.low_volume_items
    + cs.low_margin_items + cs.missing_buy_limit_items
    + cs.insufficient_cash_items + cs.low_profit_items

\* One step of the first pass that keeps the account: candidates, counters
\* and items still to visit add up as before; a visit either appends one
\* candidate and leaves the counters alone or increments exactly one counter
\* by one and appends nothing; the pass ends only with nothing left to visit.
AccountedStep ==
    /\ Len(opportunities') + Dropped(counters') + todo'
         = Len(opportunities) + Dropped(counters) + todo
    /\ (todo' # todo) =>
          /\ todo' = todo - 1
          /\ \/ /\ Len(opportunities') = Len(opportunities) + 1
                /\ counters' = counters
             \/ /\ opportunities' = opportunities
                /\ \E c \in DOMAIN counters :
                      counters' = [counters EXCEPT ![c] = @ + 1]
    /\ (pc' = "first_pass_done") => (todo' = 0)

\* C19: in the first pass every item of the snapshot is accounted for
\* exactly once: the pass starts with no candidate and all counters at
\* zero, and every step that visits an item either makes it a candidate or
\* increments exactly one drop counter, so at the end of the pass the
\* number of candidates plus the sum of the seven counters is the number
\* of snapshot items.
C19_Accounting ==
    /\ (Len(opportunities) = 0 /\ Dropped(counters) = 0)
    /\ [][AccountedStep]_vars

\* The pass has ended over a snapshot of two items, one of which became a
\* candidate and the other was dropped for a zero score.
C19_Witness ==
    /\ pc = "first_pass_done"
    /\ Len(opportunities) = 1
    /\ counters.low_profit_items = 1
    /\ Dropped(counters) = 1

----------------------------------------------------------------------------
(* SpecStats: the statistics of get_7d_prices (lines 171-234) for one      *)
(* answer, on series of 0..MaxLen points given out of order.               *)

MaxLen == 24

\* n points, the k dearer ones first.
StatsSeries ==
    UNION {{Repeat(Point(110, 95), k) \o Repeat(Point(100, 90), n - k) : k \in 0..n} :
             n \in 1..MaxLen}

StatsCalls == {[op |-> "stats", args |-> <<item_data>>] : item_data \in StatsSeries}

InitStats ==
    /\ call \in StatsCalls
    /\ ret = NoRet
    /\ EvalIdle
    /\ SelIdle

CallItemStats ==
    /\ call.op = "stats" /\ ~ret.done
    /\ ret' = [done |-> TRUE, val |-> ItemStats(call.args[1])]
    /\ UNCHANGED <<call, evalVars, selVars>>

NextStats == CallItemStats

SpecStats == InitStats /\ [][NextStats]_vars

\* C17 as stated: for each sorted price array of length n the reported
\* average is the sum of the middle slice [floor(n*0.05), floor(n*0.95))
\* divided by the slice's element count floor(n*0.95) - floor(n*0.05), and
\* the standard deviation is taken over the same slice and divides by that
\* same count, for every n.
C17_SliceMeanAndStd ==
    (call.op = "stats" /\ ret.done /\ ret.val.tag = "ok") =>
        LET high_prices == SortAsc(HighPrices(call.args[1]))
            n           == Len(high_prices)
            middle      == Slice(high_prices, Idx05(n), Idx95(n))
            count       == Idx95(n) - Idx05(n)
        IN  /\ Len(middle) = count
            /\ ret.val.avg_high.num * count
                 = ret.val.avg_high.den * SumSeq(middle)
            /\ ret.val.high_std.n9 = 10 * count

====
